---------------------------- MODULE Spec2Model ----------------------------
(***************************************************************************)
(* A model of elastic_recheck/elasticRecheck.py: the gerrit failure stream *)
(* (Stream.get_failed_tempest with its readiness probe                     *)
(* Stream._does_es_have_data) and the bug classifier (Classifier.classify).*)
(*                                                                         *)
(* Job names are sequences of their '-'-separated words, so that the       *)
(* anchored regular expressions of required_files are prefix tests.        *)
(* The wall clock is kept in seconds with its origin at the moment the     *)
(* event in hand was fetched; created_on of an event that is `age` seconds *)
(* old on arrival is therefore -age.                                       *)
(***************************************************************************)
EXTENDS Integers, Sequences, FiniteSets, TLC

VARIABLES
    \* ---- Stream.get_failed_tempest / Stream._does_es_have_data
    pc,          \* position of the stream worker
    event,       \* fevent: [failed_jobs, created_on, included]
    clock,       \* time.time()
    job,         \* index in event.failed_jobs of the loop variable `job`
    now,         \* local `now`: <<>> while unbound, <<t>> once assigned
    timed_out,   \* local `timed_out`
    exc,         \* exception that left get_failed_tempest ("none" if none)
    tmsg,        \* what the ResultTimedOut message carries
    passes,      \* number of the pass of the `while True` loop being run
    sleeps,      \* number of time.sleep(sleep_time) calls of this probe
    passed,      \* <<job, check>> pairs that passed in the pass being run
    allZero,     \* every search of this probe returned zero hits
    last,        \* the search just made by the pass and what its check raised
    \* ---- Classifier.classify
    cpc,         \* position of the classifier
    catalogDir,  \* the records stored in queries_dir
    queries,     \* self.queries
    failing,     \* failing test ids subunit2sql holds for the build
    eshits,      \* hits the engine holds for each record's query on the build
    x,           \* index in self.queries of the loop variable `x`
    bug_matches, \* local bug_matches
    searched,    \* indices of the records a search was executed for
    result,      \* value returned by the last classify call
    cexc,        \* search error raised inside the classify call ("none" if none)
    stale,       \* self.queries differed from queries_dir when the call began
    \* ---- FailJob objects
    FailJob_bugs, \* the list bound to the class attribute FailJob.bugs
    objs,        \* the FailJob instances: own `bugs` attribute, if any
    put,         \* per instance, the bugs put into it through that instance
    \* ---- calls of the pure functions
    call,        \* the function called and its arguments
    ret          \* what the call returned

streamVars == <<pc, event, clock, job, now, timed_out, exc, tmsg, passes,
                sleeps, passed, allZero, last>>
classVars == <<cpc, catalogDir, queries, failing, eshits, x, bug_matches,
               searched, result, cexc, stale>>
heapVars == <<FailJob_bugs, objs, put>>
funcVars == <<call, ret>>
vars == <<streamVars, classVars, heapVars, funcVars>>

---------------------------------------------------------------------------
\* Bounds of the model.
MaxJobs == 2        \* failed jobs of one event
MaxWork == 2        \* seconds the passes of one probe take in total
MaxHits == 2        \* hits a search may return
MaxWords == 3       \* words of a job name given to required_files
MaxLines == 2       \* lines of the comment of a gerrit event
MaxObjs == 2        \* FailJob instances alive together
MaxBugs == 2        \* bugs put into one FailJob
MaxAffects == 2     \* projects a launchpad bug affects

\* Program constants.
timeout == 1200
facet_size == 200
sleep_time == 40

---------------------------------------------------------------------------
\* required_files

BaseFiles ==
    << "logs/screen-n-api.txt", "logs/screen-n-cpu.txt",
       "logs/screen-n-sch.txt", "logs/screen-g-api.txt",
       "logs/screen-c-api.txt", "logs/screen-c-vol.txt", "logs/syslog.txt" >>

\* re.match("(tempest|grenade)-dsvm", job)
MatchDsvm(name) ==
    Len(name) >= 2 /\ name[1] \in {"tempest", "grenade"} /\ name[2] = "dsvm"

\* re.match("neutron", job)
MatchNeutron(name) == Len(name) >= 1 /\ name[1] = "neutron"

\* re.match("grenade", job)
MatchGrenade(name) == Len(name) >= 1 /\ name[1] = "grenade"

\* The grenade test indented into the devstack branch.
required_files_nested(name) ==
    IF MatchDsvm(name)
    THEN BaseFiles \o (IF MatchNeutron(name)
                       THEN << "logs/screen-q-svc.txt" >>
                       ELSE << "logs/screen-n-net.txt" >>)
                   \o (IF MatchGrenade(name) THEN << "logs/grenade.sh.txt" >>
                                              ELSE << >>)
    ELSE << >>

required_files(name) ==
    LET dsvm == IF MatchDsvm(name)
                THEN BaseFiles \o (IF MatchNeutron(name)
                                   THEN << "logs/screen-q-svc.txt" >>
                                   ELSE << "logs/screen-n-net.txt" >>)
                ELSE << >>
    IN  dsvm \o (IF MatchGrenade(name) THEN << "logs/grenade.sh.txt" >>
                                       ELSE << >>)

Range(s) == {s[i] : i \in DOMAIN s}

---------------------------------------------------------------------------
\* The environment of the stream: feed events and search-engine responses.

JobNames ==
    { << "tempest", "dsvm", "full" >>, << "grenade", "dsvm" >>,
      << "unrelated", "job" >> }

SeqsUpTo(S, n) == UNION {[1..k -> S] : k \in 0..n}

\* Seconds an event may be old when it is fetched.
StartAges == {0, timeout, timeout + 1}

\* What the stream makes of a feed event: the failed jobs
\* parse_jenkins_failure finds in it, whether is_included_job accepts its
\* comment, and eventCreatedOn.
FeedEvents ==
    [failed_jobs : SeqsUpTo([name : JobNames], MaxJobs),
     included : BOOLEAN,
     created_on : {0 - a : a \in StartAges}]

\* pyelasticsearch exceptions a search may end with.
SearchErrors == {"InvalidJsonResponseError", "ElasticHttpError"}

\* The exceptions the `try` of _does_es_have_data catches.
CaughtExceptions ==
    {"ConsoleNotReady", "FilesNotReady", "InvalidJsonResponseError"}

ConsoleResponses ==
    [exc : {"none"}, hits : 0..MaxHits] \cup [exc : SearchErrors, hits : {0}]

Markers == {"console.html", "job-output.txt"}

\* The filename facets the engine may answer the files query with.
FacetCores ==
    { {},
      Range(BaseFiles),
      Range(BaseFiles) \ {"logs/syslog.txt"},
      Range(BaseFiles) \cup {"logs/screen-n-net.txt"},
      Range(BaseFiles) \cup {"logs/screen-n-net.txt", "logs/grenade.sh.txt"},
      {"logs/grenade.sh.txt"} }

FilesResponses ==
    [exc : {"none"}, terms : {c \cup m : c \in FacetCores, m \in SUBSET Markers}]
    \cup [exc : SearchErrors, terms : {{}}]

NoQuery == [kind |-> "none", job |-> 0, raised |-> "none", terms |-> {},
            hits |-> 0, exc |-> "none"]

---------------------------------------------------------------------------
\* Stream

\* The console check wanting more than one hit.
job_console_uploaded_two(hits) ==
    IF hits <= 1 THEN "ConsoleNotReady" ELSE "none"

\* _job_console_uploaded: the exception it raises on a result of `hits` hits
job_console_uploaded(hits) ==
    IF hits = 0 THEN "ConsoleNotReady" ELSE "none"

\* The check with `and` for the `or` of its condition.
has_required_files_and(name, files) ==
    LET required == required_files(name)
        missing_files == SelectSeq(required, LAMBDA f : f \notin files)
    IN  IF Len(missing_files) # 0
           /\ ("console.html" \notin files /\ "job-output.txt" \notin files)
        THEN "FilesNotReady"
        ELSE "none"

\* _has_required_files: the exception it raises on the facet terms `files`
has_required_files(name, files) ==
    LET required == required_files(name)
        missing_files == SelectSeq(required, LAMBDA f : f \notin files)
    IN  IF Len(missing_files) # 0
           \/ ("console.html" \notin files /\ "job-output.txt" \notin files)
        THEN "FilesNotReady"
        ELSE "none"

ProbePcs == {"console", "files", "except", "sleep"}

\* A call of get_failed_tempest that starts on the event the call before
\* returned, without a getEvent.
EnterGetFailedTempest_reprobe ==
    /\ pc \in {"idle", "returned", "raised"}
    /\ pc' = IF pc = "returned" THEN "console" ELSE "waiting"
    /\ exc' = "none"
    /\ clock' = 0
    /\ job' = IF pc = "returned" THEN 1 ELSE 0
    /\ now' = << >>
    /\ timed_out' = FALSE
    /\ tmsg' = << >>
    /\ passes' = IF pc = "returned" THEN 1 ELSE 0
    /\ sleeps' = 0
    /\ passed' = {}
    /\ allZero' = TRUE
    /\ last' = NoQuery
    /\ UNCHANGED event
    /\ UNCHANGED <<classVars, heapVars, funcVars>>

\* A call of get_failed_tempest by the bot; the locals of the call before
\* are gone.
EnterGetFailedTempest ==
    /\ pc \in {"idle", "returned", "raised"}
    /\ pc' = "waiting"
    /\ exc' = "none"
    /\ clock' = 0
    /\ job' = 0
    /\ now' = << >>
    /\ timed_out' = FALSE
    /\ tmsg' = << >>
    /\ passes' = 0
    /\ sleeps' = 0
    /\ passed' = {}
    /\ allZero' = TRUE
    /\ last' = NoQuery
    /\ UNCHANGED event
    /\ UNCHANGED <<classVars, heapVars, funcVars>>

\* The loop body without its is_included_job test.
GetEvent_nofilter ==
    /\ pc = "waiting"
    /\ \E ev \in FeedEvents :
         IF Len(ev.failed_jobs) = 0
         THEN UNCHANGED streamVars
         ELSE /\ event' = [failed_jobs |-> ev.failed_jobs,
                           created_on |-> ev.created_on,
                           included |-> ev.included]
              /\ clock' = 0
              /\ pc' = "console"
              /\ job' = 1
              /\ now' = << >>
              /\ timed_out' = FALSE
              /\ tmsg' = << >>
              /\ passes' = 1
              /\ sleeps' = 0
              /\ passed' = {}
              /\ allZero' = TRUE
              /\ last' = NoQuery
              /\ UNCHANGED exc
    /\ UNCHANGED <<classVars, heapVars, funcVars>>

\* The loop body with a probe that reads the clock before its first pass.
GetEvent_clockfirst ==
    /\ pc = "waiting"
    /\ \E ev \in FeedEvents :
         IF Len(ev.failed_jobs) = 0
         THEN UNCHANGED streamVars
         ELSE /\ event' = [failed_jobs |-> ev.failed_jobs,
                           created_on |-> ev.created_on,
                           included |-> ev.included]
              /\ clock' = 0
              /\ IF ~ev.included
                 THEN UNCHANGED <<pc, job, now, timed_out, exc, tmsg, passes,
                                  sleeps, passed, allZero, last>>
                 ELSE /\ pc' = IF 0 > ev.created_on + timeout
                               THEN "except" ELSE "console"
                      /\ job' = 1
                      /\ now' = << >>
                      /\ timed_out' = FALSE
                      /\ tmsg' = << >>
                      /\ passes' = 1
                      /\ sleeps' = 0
                      /\ passed' = {}
                      /\ allZero' = TRUE
                      /\ last' = NoQuery
                      /\ UNCHANGED exc
    /\ UNCHANGED <<classVars, heapVars, funcVars>>

\* event = self.gerrit.getEvent(), parse, filter, and the entry of
\* _does_es_have_data for an included event with failed jobs.
GetEvent ==
    /\ pc = "waiting"
    /\ \E ev \in FeedEvents :
         IF Len(ev.failed_jobs) = 0
         THEN UNCHANGED streamVars
         ELSE /\ event' = [failed_jobs |-> ev.failed_jobs,
                           created_on |-> ev.created_on,
                           included |-> ev.included]
              /\ clock' = 0
              /\ IF ~ev.included
                 THEN UNCHANGED <<pc, job, now, timed_out, exc, tmsg, passes,
                                  sleeps, passed, allZero, last>>
                 ELSE /\ pc' = "console"
                      /\ job' = 1
                      /\ now' = << >>
                      /\ timed_out' = FALSE
                      /\ tmsg' = << >>
                      /\ passes' = 1
                      /\ sleeps' = 0
                      /\ passed' = {}
                      /\ allZero' = TRUE
                      /\ last' = NoQuery
                      /\ UNCHANGED exc
    /\ UNCHANGED <<classVars, heapVars, funcVars>>

\* What the `try` does with exception e raised by a check of the pass.
Handle(e) ==
    IF e \in CaughtExceptions
    THEN pc' = "except" /\ UNCHANGED exc
    ELSE pc' = "raised" /\ exc' = e

JobConsoleUploaded ==
    /\ pc = "console"
    /\ \E r \in ConsoleResponses :
         LET e == IF r.exc # "none" THEN r.exc
                  ELSE job_console_uploaded(r.hits)
         IN  /\ last' = [kind |-> "console", job |-> job, raised |-> e,
                         terms |-> {}, hits |-> r.hits, exc |-> r.exc]
             /\ allZero' = (allZero /\ r.exc = "none" /\ r.hits = 0)
             /\ IF e = "none"
                THEN /\ pc' = "files"
                     /\ passed' = passed \cup {<<job, "console">>}
                     /\ UNCHANGED exc
                ELSE Handle(e) /\ UNCHANGED passed
    /\ UNCHANGED <<event, clock, job, now, timed_out, tmsg, passes, sleeps>>
    /\ UNCHANGED <<classVars, heapVars, funcVars>>

HasRequiredFiles ==
    /\ pc = "files"
    /\ \E r \in FilesResponses :
         LET e == IF r.exc # "none" THEN r.exc
                  ELSE has_required_files(event.failed_jobs[job].name, r.terms)
         IN  /\ last' = [kind |-> "files", job |-> job, raised |-> e,
                         terms |-> r.terms, hits |-> 0, exc |-> r.exc]
             /\ allZero' = (allZero /\ r.exc = "none" /\ r.terms = {})
             /\ IF e = "none"
                THEN /\ passed' = passed \cup {<<job, "files">>}
                     /\ UNCHANGED exc
                     /\ IF job = Len(event.failed_jobs)
                        THEN pc' = "returned" /\ UNCHANGED job
                        ELSE pc' = "console" /\ job' = job + 1
                ELSE Handle(e) /\ UNCHANGED <<passed, job>>
    /\ UNCHANGED <<event, clock, now, timed_out, tmsg, passes, sleeps>>
    /\ UNCHANGED <<classVars, heapVars, funcVars>>

\* The clock test measuring the budget from the start of the probe, not
\* from created_on.
CheckTimeout_fromstart ==
    /\ pc = "except"
    /\ \E d \in 0..(MaxWork - (clock - sleep_time * sleeps)) :
         /\ clock' = clock + d
         /\ now' = << clock' >>
         /\ IF clock' > timeout
            THEN /\ timed_out' = TRUE
                 /\ tmsg' = [elapsed |-> clock' - event.created_on,
                             job |-> job]
                 /\ pc' = "raised"
                 /\ exc' = "ResultTimedOut"
            ELSE /\ pc' = "sleep"
                 /\ UNCHANGED <<timed_out, tmsg, exc>>
    /\ last' = NoQuery
    /\ UNCHANGED <<event, job, passes, sleeps, passed, allZero>>
    /\ UNCHANGED <<classVars, heapVars, funcVars>>

\* Seconds the passes of the probe took so far: the clock ran from 0 and
\* the sleeps took sleep_time each.
Worked == clock - sleep_time * sleeps

\* The clock test naming the first job of the event in its message.
CheckTimeout_firstjob ==
    /\ pc = "except"
    /\ \E d \in 0..(MaxWork - Worked) :
         /\ clock' = clock + d
         /\ now' = << clock' >>
         /\ IF clock' > event.created_on + timeout
            THEN /\ timed_out' = TRUE
                 /\ tmsg' = [elapsed |-> clock' - event.created_on,
                             job |-> 1]
                 /\ pc' = "raised"
                 /\ exc' = "ResultTimedOut"
            ELSE /\ pc' = "sleep"
                 /\ UNCHANGED <<timed_out, tmsg, exc>>
    /\ last' = NoQuery
    /\ UNCHANGED <<event, job, passes, sleeps, passed, allZero>>
    /\ UNCHANGED <<classVars, heapVars, funcVars>>

\* The clock test with `>=` for `>`.
CheckTimeout_atleast ==
    /\ pc = "except"
    /\ \E d \in 0..(MaxWork - Worked) :
         /\ clock' = clock + d
         /\ now' = << clock' >>
         /\ IF clock' >= event.created_on + timeout
            THEN /\ timed_out' = TRUE
                 /\ tmsg' = [elapsed |-> clock' - event.created_on,
                             job |-> job]
                 /\ pc' = "raised"
                 /\ exc' = "ResultTimedOut"
            ELSE /\ pc' = "sleep"
                 /\ UNCHANGED <<timed_out, tmsg, exc>>
    /\ last' = NoQuery
    /\ UNCHANGED <<event, job, passes, sleeps, passed, allZero>>
    /\ UNCHANGED <<classVars, heapVars, funcVars>>

\* The `except` clauses falling through to
\* now = time.time(); if now > event.created_on + timeout: ...
CheckTimeout ==
    /\ pc = "except"
    /\ \E d \in 0..(MaxWork - Worked) :
         /\ clock' = clock + d
         /\ now' = << clock' >>
         /\ IF clock' > event.created_on + timeout
            THEN /\ timed_out' = TRUE
                 /\ tmsg' = [elapsed |-> clock' - event.created_on,
                             job |-> job]
                 /\ pc' = "raised"
                 /\ exc' = "ResultTimedOut"
            ELSE /\ pc' = "sleep"
                 /\ UNCHANGED <<timed_out, tmsg, exc>>
    /\ last' = NoQuery
    /\ UNCHANGED <<event, job, passes, sleeps, passed, allZero>>
    /\ UNCHANGED <<classVars, heapVars, funcVars>>

\* The next pass resuming at the job that failed instead of the first one.
Sleep_resume ==
    /\ pc = "sleep"
    /\ clock' = clock + sleep_time
    /\ pc' = "console"
    /\ passes' = passes + 1
    /\ sleeps' = sleeps + 1
    /\ passed' = {}
    /\ UNCHANGED <<event, job, now, timed_out, exc, tmsg, allZero, last>>
    /\ UNCHANGED <<classVars, heapVars, funcVars>>

\* time.sleep(sleep_time), and the next pass of the `while True`
Sleep ==
    /\ pc = "sleep"
    /\ clock' = clock + sleep_time
    /\ pc' = "console"
    /\ job' = 1
    /\ passes' = passes + 1
    /\ sleeps' = sleeps + 1
    /\ passed' = {}
    /\ UNCHANGED <<event, now, timed_out, exc, tmsg, allZero, last>>
    /\ UNCHANGED <<classVars, heapVars, funcVars>>

ProbeNext == JobConsoleUploaded \/ HasRequiredFiles \/ CheckTimeout \/ Sleep

---------------------------------------------------------------------------
StreamInit ==
    /\ pc = "idle"
    /\ event = [failed_jobs |-> << >>, created_on |-> 0, included |-> FALSE]
    /\ clock = 0
    /\ job = 0
    /\ now = << >>
    /\ timed_out = FALSE
    /\ exc = "none"
    /\ tmsg = << >>
    /\ passes = 0
    /\ sleeps = 0
    /\ passed = {}
    /\ allZero = TRUE
    /\ last = NoQuery

---------------------------------------------------------------------------
\* Classifier

BugIds == {"1000001", "1000002"}

\* The test_ids key of a record: absent, an empty list, or test ids.
TestIdChoices ==
    { [declared |-> FALSE, ids |-> << >>],
      [declared |-> TRUE, ids |-> << >>],
      [declared |-> TRUE, ids |-> << "t1", "t2" >>] }

QueryRecords ==
    [bug : BugIds, suppress : BOOLEAN, test_ids : TestIdChoices]

\* What loader.load may find in queries_dir: one record per bug.
Catalogs ==
    {c \in SeqsUpTo(QueryRecords, Cardinality(BugIds)) :
        \A i, j \in DOMAIN c : i # j => c[i].bug # c[j].bug}

\* What get_failing_test_ids_from_runs_by_key_value may return.
FailingSets == { {}, {"t3"}, {"t2"}, {"t1", "t3"} }

ClassifyResponses ==
    {"hits"} \cup SearchErrors

\* A lookup of the flag under a key the records do not carry.
Suppressed_wrongkey(rec) == FALSE

\* x.get('suppress-notification')
Suppressed(rec) == rec.suppress

\* x.get('test_ids', None): true of a list that is there and not empty
HasTestIds(rec) == rec.test_ids.declared /\ Len(rec.test_ids.ids) > 0

\* The loop answering on its first test id instead of going on.
check_failed_first_only(test_ids, failing_test_ids) ==
    Len(test_ids) > 0 /\ test_ids[1] \in failing_test_ids

check_failed_test_ids_for_job(test_ids, failing_test_ids) ==
    \E i \in DOMAIN test_ids : test_ids[i] \in failing_test_ids

\* The loop body with `len(results) >= 0` for `len(results) > 0`.
ClassifyRecord_anyhits(matches, rec, hits) ==
    IF HasTestIds(rec)
    THEN IF check_failed_test_ids_for_job(rec.test_ids.ids, failing)
         THEN Append(matches, rec.bug)
         ELSE matches
    ELSE Append(matches, rec.bug)

\* bug_matches after the body of the `for x in self.queries` loop ran on
\* record rec, whose search returned `hits` hits.
ClassifyRecord(matches, rec, hits) ==
    IF hits > 0
    THEN IF HasTestIds(rec)
         THEN IF check_failed_test_ids_for_job(rec.test_ids.ids, failing)
              THEN Append(matches, rec.bug)
              ELSE matches
         ELSE Append(matches, rec.bug)
    ELSE matches

\* An edit of the files of queries_dir.
EditCatalog ==
    /\ cpc = "idle"
    /\ catalogDir' \in Catalogs \ {catalogDir}
    /\ UNCHANGED <<cpc, queries, failing, eshits, x, bug_matches, searched,
                   result, cexc, stale>>
    /\ UNCHANGED <<streamVars, heapVars, funcVars>>

\* The entry without the reload: the call runs on the self.queries it finds.
ClassifyEnter_noreload ==
    /\ cpc = "idle"
    /\ cpc' = "loop"
    /\ bug_matches' = << >>
    /\ x' = 1
    /\ searched' = {}
    /\ eshits' \in [DOMAIN queries -> 0..MaxHits]
    /\ failing' \in FailingSets
    /\ stale' = (queries # catalogDir)
    /\ UNCHANGED <<catalogDir, queries, result, cexc>>
    /\ UNCHANGED <<streamVars, heapVars, funcVars>>

\* The entry of classify: self.queries = loader.load(self.queries_dir),
\* bug_matches = [].  The engine and the test store hold what they hold
\* for the build.
ClassifyEnter ==
    /\ cpc = "idle"
    /\ cpc' = "loop"
    /\ queries' = catalogDir
    /\ bug_matches' = << >>
    /\ x' = 1
    /\ searched' = {}
    /\ eshits' \in [DOMAIN catalogDir -> 0..MaxHits]
    /\ failing' \in FailingSets
    /\ stale' = (queries # catalogDir)
    /\ UNCHANGED <<catalogDir, result, cexc>>
    /\ UNCHANGED <<streamVars, heapVars, funcVars>>

\* The iteration with the search in a `try` whose handler returns the bugs
\* matched so far.
ClassifyStep_catch ==
    /\ cpc = "loop"
    /\ x <= Len(queries)
    /\ IF Suppressed(queries[x])
       THEN /\ x' = x + 1
            /\ UNCHANGED <<cpc, bug_matches, searched, cexc, result>>
       ELSE \E r \in ClassifyResponses :
              /\ searched' = searched \cup {x}
              /\ IF r \in SearchErrors
                 THEN /\ cpc' = "done"
                      /\ cexc' = r
                      /\ result' = bug_matches
                      /\ UNCHANGED <<x, bug_matches>>
                 ELSE /\ bug_matches' =
                            ClassifyRecord(bug_matches, queries[x], eshits[x])
                      /\ x' = x + 1
                      /\ UNCHANGED <<cpc, cexc, result>>
    /\ UNCHANGED <<catalogDir, queries, failing, eshits, stale>>
    /\ UNCHANGED <<streamVars, heapVars, funcVars>>

\* One iteration of `for x in self.queries`.
ClassifyStep ==
    /\ cpc = "loop"
    /\ x <= Len(queries)
    /\ IF Suppressed(queries[x])
       THEN /\ x' = x + 1
            /\ UNCHANGED <<cpc, bug_matches, searched, cexc>>
       ELSE \E r \in ClassifyResponses :
              /\ searched' = searched \cup {x}
              /\ IF r \in SearchErrors
                 THEN /\ cpc' = "raised"
                      /\ cexc' = r
                      /\ UNCHANGED <<x, bug_matches>>
                 ELSE /\ bug_matches' =
                            ClassifyRecord(bug_matches, queries[x], eshits[x])
                      /\ x' = x + 1
                      /\ UNCHANGED <<cpc, cexc>>
    /\ UNCHANGED <<catalogDir, queries, failing, eshits, result, stale>>
    /\ UNCHANGED <<streamVars, heapVars, funcVars>>

\* return bug_matches
ClassifyReturn ==
    /\ cpc = "loop"
    /\ x > Len(queries)
    /\ cpc' = "done"
    /\ result' = bug_matches
    /\ UNCHANGED <<catalogDir, queries, failing, eshits, x, bug_matches,
                   searched, cexc, stale>>
    /\ UNCHANGED <<streamVars, heapVars, funcVars>>

\* The caller has the result (or the exception); the locals of the call
\* are gone, self.queries stays.
ClassifyLeave ==
    /\ cpc \in {"done", "raised"}
    /\ cpc' = "idle"
    /\ x' = 0
    /\ bug_matches' = << >>
    /\ searched' = {}
    /\ eshits' = << >>
    /\ failing' = {}
    /\ cexc' = "none"
    /\ stale' = FALSE
    /\ UNCHANGED <<catalogDir, queries, result>>
    /\ UNCHANGED <<streamVars, heapVars, funcVars>>

---------------------------------------------------------------------------
ClassIdle ==
    /\ cpc = "idle"
    /\ failing = {}
    /\ eshits = << >>
    /\ x = 0
    /\ bug_matches = << >>
    /\ searched = {}
    /\ result = << >>
    /\ cexc = "none"
    /\ stale = FALSE

\* No FailJob constructed yet, no pure function called yet.
NoCall == [fn |-> "none"]

AuxIdle ==
    /\ FailJob_bugs = << >>
    /\ objs = << >>
    /\ put = << >>
    /\ call = NoCall
    /\ ret = << >>

\* The stream with a classifier that is never called.
Init ==
    /\ StreamInit
    /\ ClassIdle
    /\ AuxIdle
    /\ catalogDir = << >>
    /\ queries = catalogDir

Next == EnterGetFailedTempest \/ GetEvent \/ JobConsoleUploaded
        \/ HasRequiredFiles \/ CheckTimeout \/ Sleep

Spec == Init /\ [][Next]_vars

\* The classifier, constructed on any catalog, with a stream that is never
\* started.
ClassInit ==
    /\ StreamInit
    /\ ClassIdle
    /\ AuxIdle
    /\ catalogDir \in Catalogs
    /\ queries = catalogDir

ClassNext == EditCatalog \/ ClassifyEnter \/ ClassifyStep \/ ClassifyReturn
             \/ ClassifyLeave

ClassSpec == ClassInit /\ [][ClassNext]_vars

---------------------------------------------------------------------------
\* Calls of the pure functions.

Words == {"tempest", "grenade", "dsvm", "neutron", "nova", "full",
          "unrelated", "job"}

\* The job names required_files is called with.
JobNamePool == UNION {[1..k -> Words] : k \in 1..MaxWords}

\* files = required_files(job)
CallRequiredFiles ==
    /\ call = NoCall
    /\ \E name \in JobNamePool :
         /\ call' = [fn |-> "required_files", job |-> name]
         /\ ret' = required_files(name)
    /\ UNCHANGED <<streamVars, classVars, heapVars>>

\* A url as url.split('/') gives it: "http://example/123" is
\* <<"http:", "", "example", "123">>.
Urls ==
    { << "http:", "", "example", "123" >>,
      << "http:", "", "logs", "77", "abc1234", "" >>,
      << "https:", "", "example", "456" >> }

\* The lines of a comment below its head line.  A "job" line reads
\* "- <name> <url> : <status>", with " (non-voting)" in it when nonvoting;
\* an "other" line is any other text.
OtherLine ==
    [kind |-> "other", name |-> << >>, url |-> << >>, nonvoting |-> FALSE,
     status |-> ""]

Lines ==
    [kind : {"job"},
     name : { << "tempest", "full" >>, << "grenade", "dsvm" >> },
     url : Urls,
     nonvoting : BOOLEAN,
     status : {"FAILURE", "SUCCESS"}]
    \cup {OtherLine}

\* A comment: its head line and the lines below it.
Comments ==
    [head : {"Build failed.", "Build succeeded."},
     lines : UNION {[1..k -> Lines] : k \in 0..MaxLines}]

GerritEvents ==
    [type : {"comment-added", "patchset-created"},
     username : {"jenkins", "zuul", "alice"},
     comment : Comments]

\* The values of config.ci_username.
CiUsernames == {"jenkins", "ci-bot"}

\* "Build failed" in event['comment']
HasBanner(comment) == comment.head = "Build failed."

\* re.search("- ([\w-]+)\s*(http://\S+)\s*:\s*FAILURE", line)
MatchFailure(line) ==
    line.kind = "job" /\ line.url[1] = "http:" /\ line.status = "FAILURE"

\* FailJob.__init__
FailJob(name, url) ==
    LET segments == SelectSeq(url, LAMBDA p : p # "")
    IN  [name |-> name, url |-> url,
         build_short_uuid |-> segments[Len(segments)]]

\* failed_tests after the `for line in ...` loop ran on the first n lines
RECURSIVE ScanLines(_, _)
ScanLines(lines, n) ==
    IF n = 0 THEN << >>
    ELSE LET failed_tests == ScanLines(lines, n - 1)
             line == lines[n]
         IN  IF line.nonvoting THEN failed_tests
             ELSE IF MatchFailure(line)
                  THEN Append(failed_tests, FailJob(line.name, line.url))
                  ELSE failed_tests

\* `return False`
NotAFailure == [recognized |-> FALSE, failed_tests |-> << >>]

\* The function without its test of the author.
parse_jenkins_failure_anyauthor(ev, ci_username) ==
    IF ev.type # "comment-added" THEN NotAFailure
    ELSE IF ~HasBanner(ev.comment) THEN NotAFailure
    ELSE [recognized |-> TRUE,
          failed_tests |-> ScanLines(ev.comment.lines,
                                     Len(ev.comment.lines))]

parse_jenkins_failure(ev, ci_username) ==
    IF ev.type # "comment-added" THEN NotAFailure
    ELSE IF ev.username \notin {ci_username, "zuul"} THEN NotAFailure
    ELSE IF ~HasBanner(ev.comment) THEN NotAFailure
    ELSE [recognized |-> TRUE,
          failed_tests |-> ScanLines(ev.comment.lines,
                                     Len(ev.comment.lines))]

\* failed_jobs = Stream.parse_jenkins_failure(event, ci_username=...)
CallParseJenkinsFailure ==
    /\ call = NoCall
    /\ \E ev \in GerritEvents, ci \in CiUsernames :
         /\ call' = [fn |-> "parse_jenkins_failure", event |-> ev,
                     ci_username |-> ci]
         /\ ret' = parse_jenkins_failure(ev, ci)
    /\ UNCHANGED <<streamVars, classVars, heapVars>>

\* The raw_query strings given to generic.
RawQueries ==
    { "build_status:FAILURE", "message:timeout AND tags:console" }

\* The facet argument as the callers give it: None, the name of a field, or
\* a list of names of fields.
Facets ==
    { [kind |-> "None"],
      [kind |-> "str", value |-> "filename"],
      [kind |-> "str", value |-> "build_status"],
      [kind |-> "list", value |-> << "build_uuid" >>],
      [kind |-> "list", value |-> << "build_status", "build_uuid" >>] }

\* `if facet:`
Truthy(facet) ==
    /\ facet.kind # "None"
    /\ facet.value # (IF facet.kind = "str" THEN "" ELSE << >>)

\* The query without facets.
BaseQuery(raw_query) ==
    [sort |-> ("@timestamp" :> [order |-> "desc"]),
     query |-> [query_string |-> [query |-> raw_query]]]

\* generic without its test of the type of facet.
generic_field(raw_query, facet) ==
    IF Truthy(facet)
    THEN BaseQuery(raw_query) @@
         [facets |-> [tag |-> [terms |->
             [field |-> facet.value, size |-> facet_size]]]]
    ELSE BaseQuery(raw_query)

generic(raw_query, facet) ==
    IF Truthy(facet)
    THEN LET data == IF facet.kind = "list"
                     THEN [fields |-> facet.value, size |-> facet_size]
                     ELSE [field |-> facet.value, size |-> facet_size]
         IN  BaseQuery(raw_query) @@ [facets |-> [tag |-> [terms |-> data]]]
    ELSE BaseQuery(raw_query)

\* es_query = qb.generic(query, facet=facet)
CallGeneric ==
    /\ call = NoCall
    /\ \E q \in RawQueries, f \in Facets :
         /\ call' = [fn |-> "generic", raw_query |-> q, facet |-> f]
         /\ ret' = generic(q, f)
    /\ UNCHANGED <<streamVars, classVars, heapVars>>

\* The bugs of the failed jobs of an event given to leave_comment: one
\* list of bug ids per job, in failed_jobs order.
JobsBugs == SeqsUpTo(SeqsUpTo(BugIds, MaxBugs), MaxJobs)

\* FailEvent.get_all_bugs as a set; the empty set stands for None.
get_all_bugs(bugs) == UNION {Range(bugs[j]) : j \in DOMAIN bugs}

\* is_fully_classified answering True as soon as one job has a bug.
is_fully_classified_any(bugs) ==
    IF get_all_bugs(bugs) = {} THEN TRUE
    ELSE \E j \in DOMAIN bugs : Len(bugs[j]) # 0

\* FailEvent.is_fully_classified
is_fully_classified(bugs) ==
    IF get_all_bugs(bugs) = {} THEN TRUE
    ELSE \A j \in DOMAIN bugs : Len(bugs[j]) # 0

\* Stream.leave_comment: the parts of the message, each named by its key
\* in msgs, and whether gerrit.review was called with the message.
leave_comment(bugs, debug) ==
    LET parts == IF get_all_bugs(bugs) # {}
                 THEN << "found_bug",
                         IF is_fully_classified(bugs)
                         THEN "recheck_instructions" ELSE "unrecognized",
                         "footer" >>
                 ELSE << "no_bugs_found" >>
    IN  [parts |-> parts, posted |-> ~debug]

CallLeaveComment ==
    /\ call = NoCall
    /\ \E bugs \in JobsBugs, debug \in BOOLEAN :
         /\ call' = [fn |-> "leave_comment", bugs |-> bugs, debug |-> debug]
         /\ ret' = leave_comment(bugs, debug)
    /\ UNCHANGED <<streamVars, classVars, heapVars>>

\* The cleanup command.  A string is kept as what the code makes of it:
\* one item of `affects` is the list of its parts between " - ", and a
\* part is the list of its pieces, the first and the last of which are
\* what [1:] and [:-1] trim: "(nova - Fix Released)" is
\* << <<"(", "nova">>, <<"Fix Released", ")">> >>.
FIXED_STATUSES == { <<"Invalid">>, <<"Fix Committed">>, <<"Fix Released">> }

\* The items the bug tracker lookup gives for the projects of a bug.
AffectedItems ==
    { << <<"(", "nova">>, <<"Fix Released", ")">> >>,
      << <<"(", "neutron">>, <<"Invalid", ")">> >>,
      << <<"(", "cinder">>, <<"Confirmed", ")">> >>,
      << <<"Unknown (Private Bug)">> >> }

\* bug_data.get('affects') split at ',': the empty list stands for no
\* affects data.
LaunchpadAffects == SeqsUpTo(AffectedItems, MaxAffects)

\* classifier.queries with, for each query, what the lookup of its bug
\* gives.
CleanupQueries ==
    {c \in SeqsUpTo([bug : BugIds, suppress_graph : BOOLEAN,
                     affects : LaunchpadAffects], Cardinality(BugIds)) :
        \A i, j \in DOMAIN c : i # j => c[i].bug # c[j].bug}

\* --bug ("" when not given) and --dry-run
CleanupArgs == [bug : {"", "1000001", "1000003"}, dry_run : BOOLEAN]

\* get_project_status: the status of the item, or the exception
get_project_status(affected) ==
    IF Len(affected) # 2
    THEN [raised |-> "InvalidProjectstatus", project |-> << >>,
          status |-> << >>]
    ELSE [raised |-> "none", project |-> Tail(affected[1]),
          status |-> SubSeq(affected[2], 1, Len(affected[2]) - 1)]

\* The flag set as soon as one project has a fixed status.
fixed_in_some_affected_project(affects) ==
    \E k \in DOMAIN affects :
        LET ps == get_project_status(affects[k])
        IN  ps.raised = "none" /\ ps.status \in FIXED_STATUSES

\* fixed_in_all_affected_projects after `for affected in affects`
fixed_in_all_affected_projects(affects) ==
    \A k \in DOMAIN affects :
        LET ps == get_project_status(affects[k])
        IN  ps.raised = "none" /\ ps.status \in FIXED_STATUSES

\* processed, cleaned and the files removed after the first n iterations
\* of `for query in classifier.queries`
RECURSIVE CleanupLoop(_, _, _)
CleanupLoop(qs, args, n) ==
    IF n = 0 THEN [processed |-> << >>, cleaned |-> << >>, removed |-> << >>]
    ELSE LET before == CleanupLoop(qs, args, n - 1)
             query == qs[n]
             seen == [before EXCEPT !.processed = Append(@, query.bug)]
         IN  IF args.bug # "" /\ query.bug # args.bug THEN seen
             ELSE IF query.suppress_graph THEN seen
             ELSE IF query.affects = << >> THEN seen
             ELSE IF ~fixed_in_all_affected_projects(query.affects) THEN seen
             ELSE [seen EXCEPT
                     !.cleaned = Append(@, query.bug),
                     !.removed = IF args.dry_run THEN @
                                 ELSE Append(@, query.bug)]

\* cleanup.main: the files removed, the bugs reported as cleaned and the
\* exit code.
cleanup_main(qs, args) ==
    LET end == CleanupLoop(qs, args, Len(qs))
    IN  [removed |-> end.removed,
         cleaned |-> end.cleaned,
         exit |-> IF args.bug # "" /\ args.bug \notin Range(end.processed)
                  THEN 1 ELSE 0]

CallCleanupMain ==
    /\ call = NoCall
    /\ \E qs \in CleanupQueries, args \in CleanupArgs :
         /\ call' = [fn |-> "cleanup", queries |-> qs, args |-> args]
         /\ ret' = cleanup_main(qs, args)
    /\ UNCHANGED <<streamVars, classVars, heapVars>>

\* The caller going on after the call returned.
FuncReturn ==
    /\ call # NoCall
    /\ call' = NoCall
    /\ ret' = << >>
    /\ UNCHANGED <<streamVars, classVars, heapVars>>

FuncInit ==
    /\ StreamInit
    /\ ClassIdle
    /\ catalogDir = << >>
    /\ queries = catalogDir
    /\ AuxIdle

FuncNext ==
    CallRequiredFiles \/ CallParseJenkinsFailure \/ CallGeneric
        \/ CallLeaveComment \/ CallCleanupMain \/ FuncReturn

FuncSpec == FuncInit /\ [][FuncNext]_vars

---------------------------------------------------------------------------
\* FailJob objects and the list their class attribute `bugs` is bound to.
\* An instance is [own, bugs]: own says that the instance has a `bugs`
\* attribute of its own, bound to the list bugs; without one, `job.bugs` is
\* looked up in the class and gives the one list FailJob.bugs.

\* job.bugs
BugsOf(j) == IF objs[j].own THEN objs[j].bugs ELSE FailJob_bugs

\* FailJob(name, url): __init__ binds name, url and build_short_uuid, and
\* no bugs.
NewFailJob ==
    /\ Len(objs) < MaxObjs
    /\ objs' = Append(objs, [own |-> FALSE, bugs |-> << >>])
    /\ put' = Append(put, << >>)
    /\ UNCHANGED FailJob_bugs
    /\ UNCHANGED <<streamVars, classVars, funcVars>>

\* job.bugs.append(b): the list `job.bugs` gives is changed in place.
AppendBug ==
    /\ \E j \in DOMAIN objs, b \in BugIds :
         /\ Len(put[j]) < MaxBugs
         /\ IF objs[j].own
            THEN /\ objs' = [objs EXCEPT ![j].bugs = Append(@, b)]
                 /\ UNCHANGED FailJob_bugs
            ELSE /\ FailJob_bugs' = Append(FailJob_bugs, b)
                 /\ UNCHANGED objs
         /\ put' = [put EXCEPT ![j] = Append(@, b)]
    /\ UNCHANGED <<streamVars, classVars, funcVars>>

\* job.bugs = [b, ...]: the instance gets an attribute of its own, bound to
\* a new list.
AssignBugs ==
    /\ \E j \in DOMAIN objs, bs \in {<< >>} \cup {<<b>> : b \in BugIds} :
         /\ objs' = [objs EXCEPT ![j] = [own |-> TRUE, bugs |-> bs]]
         /\ put' = [put EXCEPT ![j] = bs]
    /\ UNCHANGED FailJob_bugs
    /\ UNCHANGED <<streamVars, classVars, funcVars>>

HeapInit ==
    /\ StreamInit
    /\ ClassIdle
    /\ catalogDir = << >>
    /\ queries = catalogDir
    /\ AuxIdle

HeapNext == NewFailJob \/ AppendBug \/ AssignBugs

HeapSpec == HeapInit /\ [][HeapNext]_vars

---------------------------------------------------------------------------
\* The probe called on its own, on any FailEvent, one without failed jobs
\* included.

\* self._does_es_have_data(event): the locals of the call and the entry of
\* the first pass.  Over an empty failed_jobs the `for` has no iteration,
\* the `break` leaves the `while` and the call returns True.
CallDoesEsHaveData ==
    /\ pc \in {"idle", "returned", "raised"}
    /\ \E ev \in {e \in FeedEvents : e.included} :
         /\ event' = [failed_jobs |-> ev.failed_jobs,
                      created_on |-> ev.created_on,
                      included |-> ev.included]
         /\ IF Len(ev.failed_jobs) = 0
            THEN pc' = "returned" /\ job' = 0
            ELSE pc' = "console" /\ job' = 1
    /\ clock' = 0
    /\ exc' = "none"
    /\ now' = << >>
    /\ timed_out' = FALSE
    /\ tmsg' = << >>
    /\ passes' = 1
    /\ sleeps' = 0
    /\ passed' = {}
    /\ allZero' = TRUE
    /\ last' = NoQuery
    /\ UNCHANGED <<classVars, heapVars, funcVars>>

ProbeInit ==
    /\ StreamInit
    /\ ClassIdle
    /\ catalogDir = << >>
    /\ queries = catalogDir
    /\ AuxIdle

ProbeCallNext ==
    CallDoesEsHaveData \/ JobConsoleUploaded \/ HasRequiredFiles
        \/ CheckTimeout \/ Sleep

ProbeSpec == ProbeInit /\ [][ProbeCallNext]_vars

---------------------------------------------------------------------------
\* The stream with a caller that puts bugs into the jobs of the events it
\* gets.  The FailJobs of an event are made by parse_jenkins_failure and
\* have no `bugs` attribute of their own: `job.bugs` of each of them is the
\* list FailJob.bugs.

\* job.bugs.append(b) on a job of the event get_failed_tempest returned
CallerAppendBug ==
    /\ pc = "returned"
    /\ Len(FailJob_bugs) < MaxBugs
    /\ \E j \in DOMAIN event.failed_jobs, b \in BugIds :
         FailJob_bugs' = Append(FailJob_bugs, b)
    /\ UNCHANGED <<objs, put>>
    /\ UNCHANGED <<streamVars, classVars, funcVars>>

CallerNext ==
    EnterGetFailedTempest \/ GetEvent \/ JobConsoleUploaded
        \/ HasRequiredFiles \/ CheckTimeout \/ Sleep \/ CallerAppendBug

CallerSpec == Init /\ [][CallerNext]_vars

\* The stream worker is one running thread: a probe that can take a step
\* takes it.  Nothing forces the feed to deliver an event or the bot to call.
FairSpec == Spec /\ WF_vars(ProbeNext)

---------------------------------------------------------------------------
\* Properties of the stream and of its readiness probe.

FailedJobs == event.failed_jobs
RaisedTimedOut == pc = "raised" /\ exc = "ResultTimedOut"

\* C1: when the readiness probe times out, the event is dropped without
\* being surfaced: no exception leaves get_failed_tempest and the stream is
\* waiting for the next feed event again.
C1_TimeoutDropsEvent ==
    timed_out => (pc = "waiting" /\ exc = "none")

\* The required files of the job of the files search just made that are
\* absent from its facet terms.
LastMissing ==
    Range(required_files(FailedJobs[last.job].name)) \ last.terms

FilesAnswered == last.kind = "files" /\ last.exc = "none"

\* C2 as stated: _has_required_files raises FilesNotReady exactly when a
\* required file is absent AND neither console.html nor job-output.txt is
\* among the facet terms.
C2_FilesNotReadyIffMissingAndNoMarker ==
    FilesAnswered =>
        (last.raised = "FilesNotReady"
            <=> (LastMissing # {} /\ last.terms \cap Markers = {}))

\* C2 as amended: _has_required_files raises FilesNotReady exactly when a
\* required file is absent OR neither console.html nor job-output.txt is
\* among the facet terms; otherwise the check passes.
C2_FilesNotReadyIffMissingOrNoMarker ==
    FilesAnswered =>
        /\ last.raised \in {"FilesNotReady", "none"}
        /\ last.raised = "FilesNotReady"
             <=> (LastMissing # {} \/ last.terms \cap Markers = {})

\* A files check that raised although a finish marker was among the terms:
\* a required file was missing.
C2_Witness ==
    /\ FilesAnswered
    /\ last.raised = "FilesNotReady"
    /\ LastMissing # {}
    /\ "console.html" \in last.terms
    /\ pc = "except"

\* C3: the probe ends unsuccessfully only by raising ResultTimedOut, which
\* carries the elapsed time since created_on and the last-checked job;
\* whatever the search engine does, no other exception leaves the probe.
C3_OnlyResultTimedOutRaised ==
    pc = "raised" =>
        /\ exc = "ResultTimedOut"
        /\ tmsg = [elapsed |-> clock - event.created_on, job |-> job]

AllChecks == (1..Len(FailedJobs)) \X {"console", "files"}

\* C4: every pass checks the jobs afresh, and the probe returns success
\* exactly when, within the pass being run, every failed job passed the
\* console check and the required-files check.
C4_SuccessIffFullPass ==
    pc \in ProbePcs \cup {"returned", "raised"} =>
        /\ (pc = "returned") <=> (passed = AllChecks)
        /\ pc = "console" /\ job = 1 => passed = {}
        /\ passed \subseteq (1..job) \X {"console", "files"}

\* Success in a second or later pass of an event with two failed jobs.
C4_Witness ==
    /\ pc = "returned"
    /\ passes >= 2
    /\ Len(FailedJobs) = 2
    /\ passed = AllChecks

\* The engine returned zero hits to every search of the probe in hand, and
\* the event was created timeout seconds before the probe started.
ZeroHitsOldEvent ==
    /\ pc \in ProbePcs \cup {"returned", "raised"}
    /\ allZero
    /\ event.created_on = 0 - timeout

\* C5: with an engine that always returns zero hits and created_on = now -
\* 1200 at the start, the probe raises ResultTimedOut after at most one
\* sleep, in its first or second pass, and does not loop for ever.
C5_ZeroHitsTimesOutBySecondPass ==
    /\ [](ZeroHitsOldEvent =>
            /\ sleeps <= 1
            /\ passes <= 2
            /\ pc # "returned"
            /\ pc = "raised" => exc = "ResultTimedOut")
    /\ (ZeroHitsOldEvent /\ pc \in ProbePcs) ~> (RaisedTimedOut \/ ~allZero)

\* The probe of such an event timing out in its second pass, after a sleep.
C5_Witness ==
    /\ ZeroHitsOldEvent
    /\ RaisedTimedOut
    /\ sleeps = 1
    /\ passes = 2

\* C6: a search-engine error raised by a poll is handled like a not-ready
\* result: the pass is abandoned for the clock test and the sleep, and the
\* error does not reach the caller.
C6_SearchErrorRetried ==
    last.exc \in SearchErrors => (pc = "except" /\ exc = "none")

\* C7: every execution of the probe eventually returns success or raises
\* ResultTimedOut.
C7_ProbeEndsReadyOrTimedOut ==
    (pc \in ProbePcs) ~> (pc = "returned" \/ RaisedTimedOut)

\* The probe does end, one way or another: nothing is retried for ever.
ProbeTerminates == (pc \in ProbePcs) ~> (pc \notin ProbePcs)

---------------------------------------------------------------------------
\* Properties of Classifier.classify.

Classifying == cpc \in {"loop", "done"}
Matched == IF cpc = "done" THEN Range(result) ELSE Range(bug_matches)

\* C8: a record whose suppress-notification flag is true never contributes
\* its bug to the result of classify, whatever hits the engine holds for
\* it, and no search is executed for it.
C8_SuppressedNeverMatched ==
    Classifying =>
        \A i \in DOMAIN queries :
            queries[i].suppress =>
                /\ i \notin searched
                /\ queries[i].bug \notin Matched

\* A finished call over two records, one of them suppressed with hits in
\* the engine, the other one matched.
C8_Witness ==
    /\ cpc = "done"
    /\ Len(queries) = 2
    /\ Len(result) = 1
    /\ \E i \in DOMAIN queries : queries[i].suppress /\ eshits[i] > 0

\* Record i is not suppressed, was searched and has at least one hit.
HitRecord(i) ==
    /\ ~queries[i].suppress
    /\ i \in searched
    /\ eshits[i] > 0

Overlap(i) == Range(queries[i].test_ids.ids) \cap failing # {}

\* C9 as stated: for a non-suppressed record that declares test_ids and
\* has a hit, the bug is in the result iff one of its test_ids is in the
\* failing set of the build.
C9_DeclaredTestIdsGate ==
    cpc = "done" =>
        \A i \in DOMAIN queries :
            (HitRecord(i) /\ queries[i].test_ids.declared) =>
                (queries[i].bug \in Range(result) <=> Overlap(i))

\* C9 as amended: for a non-suppressed record that declares a non-empty
\* test_ids list and has a hit, the bug is in the result iff one of its
\* test_ids is in the failing set of the build.
C9_NonEmptyTestIdsGate ==
    cpc = "done" =>
        \A i \in DOMAIN queries :
            (HitRecord(i) /\ queries[i].test_ids.declared
                          /\ queries[i].test_ids.ids # << >>) =>
                (queries[i].bug \in Range(result) <=> Overlap(i))

\* A record with test ids t1, t2 and a hit, left out because only t3 failed.
C9_Witness ==
    /\ cpc = "done"
    /\ failing = {"t3"}
    /\ \E i \in DOMAIN queries :
         /\ HitRecord(i)
         /\ queries[i].test_ids.ids = << "t1", "t2" >>
         /\ queries[i].bug \notin Range(result)

\* The test-id gate: a record without test ids passes, one with test ids
\* passes when one of them failed in the build.
PassesGate(i) == queries[i].test_ids.ids = << >> \/ Overlap(i)

RecordMatches(i) ==
    ~queries[i].suppress /\ eshits[i] > 0 /\ PassesGate(i)

\* The bugs of the matching records among the first n, in catalog order.
RECURSIVE MatchedBugs(_)
MatchedBugs(n) ==
    IF n = 0 THEN << >>
    ELSE IF RecordMatches(n)
         THEN Append(MatchedBugs(n - 1), queries[n].bug)
         ELSE MatchedBugs(n - 1)

NoDuplicates(seq) ==
    \A i, j \in DOMAIN seq : i # j => seq[i] # seq[j]

\* C10: the result of classify is exactly the bugs, in catalog order, of
\* the records that are not suppressed, have a hit and pass the test-id
\* gate; a record without hits never matches and no bug appears twice.
C10_ResultIsMatchesInCatalogOrder ==
    /\ cpc = "loop" => bug_matches = MatchedBugs(x - 1)
    /\ cpc = "done" =>
         /\ result = MatchedBugs(Len(queries))
         /\ NoDuplicates(result)
         /\ \A i \in DOMAIN queries :
              eshits[i] = 0 => queries[i].bug \notin Range(result)

\* Two matches returned in catalog order, which is not the order of the
\* bug ids, in a call where the gate let one record through.
C10_Witness ==
    /\ cpc = "done"
    /\ result = << "1000002", "1000001" >>
    /\ \E i \in DOMAIN queries : queries[i].test_ids.ids # << >>

\* The bugs classify is to return on catalog cat: those of the records
\* among the first n that are not suppressed, have a hit and pass the
\* test-id gate, in the order of cat.
RECURSIVE ResultOn(_, _)
ResultOn(cat, n) ==
    IF n = 0 THEN << >>
    ELSE IF /\ ~cat[n].suppress
            /\ eshits[n] > 0
            /\ \/ cat[n].test_ids.ids = << >>
               \/ Range(cat[n].test_ids.ids) \cap failing # {}
         THEN Append(ResultOn(cat, n - 1), cat[n].bug)
         ELSE ResultOn(cat, n - 1)

\* C11: every call of classify re-reads the catalog before it evaluates a
\* record: during a call self.queries is what queries_dir holds, and the
\* result of the call is the one that catalog gives, whatever catalog the
\* calls before ran on.
C11_CatalogReloadedEachCall ==
    cpc \in {"loop", "done", "raised"} =>
        /\ queries = catalogDir
        /\ cpc = "done" => result = ResultOn(catalogDir, Len(catalogDir))

\* A finished call that began with a self.queries the directory no longer
\* held, and that matched a bug of the edited catalog.
C11_Witness ==
    /\ cpc = "done"
    /\ stale
    /\ queries = catalogDir
    /\ result # << >>

---------------------------------------------------------------------------
\* Properties of required_files.

CalledRequiredFiles == call.fn = "required_files"
QSvc == "logs/screen-q-svc.txt"
NNet == "logs/screen-n-net.txt"
GrenadeLog == "logs/grenade.sh.txt"

\* C12: required_files("neutron-tempest-dsvm") contains
\* logs/screen-q-svc.txt and does not contain logs/screen-n-net.txt.
C12_NeutronJobNeedsQSvc ==
    (CalledRequiredFiles /\ call.job = << "neutron", "tempest", "dsvm" >>) =>
        (QSvc \in Range(ret) /\ NNet \notin Range(ret))

\* C13: required_files("nova-tempest-dsvm") contains logs/screen-n-net.txt
\* and not logs/screen-q-svc.txt; and for any devstack-style job name the
\* result holds the seven base files plus exactly one of the two
\* service-specific files.
C13_DevstackJobNeedsOneServiceLog ==
    CalledRequiredFiles =>
        /\ call.job = << "nova", "tempest", "dsvm" >> =>
             (NNet \in Range(ret) /\ QSvc \notin Range(ret))
        /\ MatchDsvm(call.job) =>
             /\ Range(BaseFiles) \subseteq Range(ret)
             /\ (NNet \in Range(ret)) # (QSvc \in Range(ret))

\* C14: required_files returns the empty list for a job name that matches
\* neither '(tempest|grenade)-dsvm' nor 'grenade' (such as unrelated-job),
\* and its result contains logs/grenade.sh.txt for every job name that
\* matches 'grenade' (such as grenade-dsvm).
C14_EmptyOrGrenadeLog ==
    CalledRequiredFiles =>
        /\ (~MatchDsvm(call.job) /\ ~MatchGrenade(call.job)) => ret = << >>
        /\ call.job = << "unrelated", "job" >> => ret = << >>
        /\ MatchGrenade(call.job) => GrenadeLog \in Range(ret)
        /\ call.job = << "grenade", "dsvm" >> => GrenadeLog \in Range(ret)

\* The call on a grenade job that is not a devstack one: the grenade log
\* is all it requires.
C14_Witness ==
    /\ CalledRequiredFiles
    /\ call.job = << "grenade", "full" >>
    /\ ret = << GrenadeLog >>

---------------------------------------------------------------------------
\* Properties of Stream.parse_jenkins_failure.

CalledParse == call.fn = "parse_jenkins_failure"

\* The three conditions of the event of the call.
IsComment == call.event.type = "comment-added"
ByTrustedBot == call.event.username \in {call.ci_username, "zuul"}
SaysBuildFailed == call.event.comment.head = "Build failed."

\* C15: parse_jenkins_failure recognizes an event only if its type is
\* comment-added, its author is a trusted CI bot (config.ci_username or
\* zuul) and its comment holds the banner "Build failed"; an event that
\* fails one of the three yields no failed job, whatever its lines say.
C15_RecognizedOnlyIfTrustedFailureComment ==
    CalledParse =>
        /\ ret.recognized <=> (IsComment /\ ByTrustedBot /\ SaysBuildFailed)
        /\ ~(IsComment /\ ByTrustedBot /\ SaysBuildFailed) =>
              ret.failed_tests = << >>

\* A "Build failed" comment with a failure line, written by someone who is
\* no CI bot: nothing is made of it.
C15_Witness ==
    /\ CalledParse
    /\ IsComment
    /\ SaysBuildFailed
    /\ call.event.username = "alice"
    /\ \E i \in DOMAIN call.event.comment.lines :
         /\ call.event.comment.lines[i].kind = "job"
         /\ call.event.comment.lines[i].status = "FAILURE"
         /\ call.event.comment.lines[i].url[1] = "http:"
         /\ ~call.event.comment.lines[i].nonvoting
    /\ ret = NotAFailure

\* The last non-empty '/'-separated segment of a url.
ShortUuid(url) ==
    LET at == CHOOSE i \in DOMAIN url :
                  url[i] # "" /\ \A j \in DOMAIN url : j > i => url[j] = ""
    IN  url[at]

\* The failed jobs a comment is to give, for the lines that satisfy Form:
\* one per such line, in line order.
JobsOf(lines, Form(_)) ==
    LET formed == SelectSeq(lines, Form)
    IN  [k \in DOMAIN formed |->
            [name |-> formed[k].name, url |-> formed[k].url,
             build_short_uuid |-> ShortUuid(formed[k].url)]]

\* A line "- <job-name> <url> : FAILURE" without "(non-voting)".
FailureLine(line) ==
    line.kind = "job" /\ line.status = "FAILURE" /\ ~line.nonvoting

\* Such a line whose url begins with http://
HttpFailureLine(line) == FailureLine(line) /\ line.url[1] = "http:"

\* C16 as stated: for a recognized event every line
\* "- <job-name> <url> : FAILURE" that is not non-voting yields one
\* FailedJob with that name, that url and the last non-empty segment of the
\* url as build_short_uuid, in line order; other lines yield none.
C16_EveryFailureLineYieldsJob ==
    (CalledParse /\ ret.recognized) =>
        ret.failed_tests = JobsOf(call.event.comment.lines, FailureLine)

\* What the code does: the same for the lines whose url begins with
\* http:// only; a failure line with another url (https://) yields no
\* FailedJob.
C16_HttpFailureLineYieldsJob ==
    (CalledParse /\ ret.recognized) =>
        ret.failed_tests = JobsOf(call.event.comment.lines, HttpFailureLine)

\* A recognized comment of a non-voting line and a failure line whose url
\* ends in '/': one FailedJob, with the segment before the slash as
\* build_short_uuid.
HttpFailureLineParsed ==
    /\ CalledParse
    /\ ret.recognized
    /\ Len(call.event.comment.lines) = 2
    /\ call.event.comment.lines[1].nonvoting
    /\ call.event.comment.lines[1].status = "FAILURE"
    /\ Len(ret.failed_tests) = 1
    /\ ret.failed_tests[1].url = << "http:", "", "logs", "77", "abc1234", "" >>
    /\ ret.failed_tests[1].build_short_uuid = "abc1234"

---------------------------------------------------------------------------
\* The inclusion filter of get_failed_tempest.

\* The event in hand has failed jobs and its comment does not match
\* config.jobs_re.
ExcludedEvent == event.failed_jobs # << >> /\ ~event.included

\* C17: get_failed_tempest issues no readiness query, console or files,
\* for an event whose comment does not match the inclusion expression:
\* with such an event in hand the stream is back at getEvent with no query
\* made, and a probe runs only on an event the filter accepted.
C17_NoProbeOfExcludedEvent ==
    /\ (pc \in ProbePcs \/ last # NoQuery) => event.included
    /\ ExcludedEvent => (pc = "waiting" /\ last = NoQuery)

\* An excluded event with two failed jobs was taken from the feed and
\* skipped.
C17_Witness ==
    /\ ExcludedEvent
    /\ Len(event.failed_jobs) = MaxJobs
    /\ pc = "waiting"
    /\ last = NoQuery

---------------------------------------------------------------------------
\* Ownership of the bugs of a FailJob.

\* C18: every FailJob owns its bugs container: the bugs of a FailJob are
\* the bugs put into it through that very object, in order; so a new
\* FailJob has no bugs whatever was done to earlier ones, and an append to
\* one FailJob leaves the bugs of every other one as they were.
C18_FailJobOwnsBugs ==
    \A j \in DOMAIN objs : BugsOf(j) = put[j]

---------------------------------------------------------------------------
\* Search errors inside classify.

\* C19: an error the search engine raises while classify evaluates a
\* record is not caught: whenever a search of the call has raised, the call
\* has ended by that exception; the step that raises hands no list to the
\* caller; and from the raise the call only leaves, it never goes on with
\* the loop nor returns.
C19_SearchErrorLeavesClassify ==
    /\ [](cexc # "none" => (cexc \in SearchErrors /\ cpc = "raised"))
    /\ [][cexc' # "none" => result' = result]_vars
    /\ [][cpc = "raised" => cpc' \in {"raised", "idle"}]_vars

\* The search for the second record raised after the first record had
\* matched: the call ended by the exception and the caller got no list.
C19_Witness ==
    /\ cpc = "raised"
    /\ cexc = "ElasticHttpError"
    /\ x = 2
    /\ Len(bug_matches) = 1
    /\ result = << >>

---------------------------------------------------------------------------
\* Properties of query_builder.generic.

CalledGeneric == call.fn = "generic"

\* C20: generic(raw_query, facet) gives a request sorted by @timestamp
\* descending with raw_query as its query_string; the request has no
\* facets key when facet is None, the terms {field: facet, size: 200} when
\* facet is the name of a field, and {fields: facet, size: 200} when facet
\* is a list of names.  The request is written from the two arguments
\* alone, so equal arguments give equal requests.
C20_GenericRequest ==
    CalledGeneric =>
        /\ {"sort", "query"} \subseteq DOMAIN ret
        /\ DOMAIN ret \subseteq {"sort", "query", "facets"}
        /\ DOMAIN ret["sort"] = {"@timestamp"}
        /\ ret["sort"]["@timestamp"] = [order |-> "desc"]
        /\ ret["query"] = [query_string |-> [query |-> call.raw_query]]
        /\ call.facet.kind = "None" => "facets" \notin DOMAIN ret
        /\ call.facet.kind = "str" =>
             /\ "facets" \in DOMAIN ret
             /\ ret["facets"] =
                  [tag |-> [terms |-> [field |-> call.facet.value,
                                       size |-> 200]]]
        /\ call.facet.kind = "list" =>
             /\ "facets" \in DOMAIN ret
             /\ ret["facets"] =
                  [tag |-> [terms |-> [fields |-> call.facet.value,
                                       size |-> 200]]]

\* A call with a list of two fields: the terms carry the plural key.
C20_Witness ==
    /\ CalledGeneric
    /\ call.facet = [kind |-> "list",
                     value |-> << "build_status", "build_uuid" >>]
    /\ ret["facets"]["tag"]["terms"]["fields"] =
          << "build_status", "build_uuid" >>
    /\ "field" \notin DOMAIN ret["facets"]["tag"]["terms"]

---------------------------------------------------------------------------
\* The order of the checks of one pass.

\* Both checks of the first n jobs.
Done(n) == (1..n) \X {"console", "files"}

\* The console search just made was answered by the engine.
ConsoleAnswered == last.kind = "console" /\ last.exc = "none"

\* C21: within one pass the jobs are checked in failed_jobs order, console
\* before files: the console check of a job is made when both checks of all
\* jobs before it passed, and raises ConsoleNotReady exactly when its search
\* has zero hits; the files query of a job is made only after the console
\* search of that job had a hit; and a check that fails ends the pass: no
\* check passes after it until the next pass starts with nothing checked.
C21_ChecksInOrderStopAtFirstFailure ==
    /\ [](pc = "console" => passed = Done(job - 1))
    /\ [](ConsoleAnswered =>
            /\ last.raised \in {"ConsoleNotReady", "none"}
            /\ last.raised = "ConsoleNotReady" <=> last.hits = 0)
    /\ [](pc = "files" =>
            /\ passed = Done(job - 1) \cup {<<job, "console">>}
            /\ ConsoleAnswered /\ last.job = job /\ last.hits >= 1)
    /\ [](pc = "except" =>
            /\ last.job = job
            /\ last.raised \in CaughtExceptions
            /\ last.kind = "console" => passed = Done(job - 1)
            /\ last.kind = "files" =>
                  passed = Done(job - 1) \cup {<<job, "console">>})
    /\ [][(pc \in {"except", "sleep", "raised"}) =>
             (passed' \subseteq passed)]_vars
    /\ [][pc = "sleep" /\ pc' # pc => (pc' = "console" /\ job' = 1)]_vars

\* The console search of the second job had zero hits after both checks of
\* the first job passed: the pass ended there, the files of the second job
\* were not asked for.
C21_Witness ==
    /\ pc = "except"
    /\ job = 2
    /\ ConsoleAnswered
    /\ last.hits = 0
    /\ last.raised = "ConsoleNotReady"
    /\ passed = Done(1)

---------------------------------------------------------------------------
\* The clock of the probe.

InProbe == pc \in ProbePcs \cup {"returned", "raised"}

\* C22: the probe makes one full pass before it reads the clock: during
\* the first pass `now` is not read, whatever the age of the event; a
\* first pass in which every job passed both checks ends in success with
\* no timeout, also for an event older than timeout seconds; and the clock
\* is read only after a check of the pass in hand failed.
C22_FirstPassBeforeClock ==
    /\ []((InProbe /\ passes = 1 /\ pc \in {"console", "files", "returned"})
             => (now = << >> /\ ~timed_out))
    /\ []((InProbe /\ passes = 1 /\ passed = AllChecks)
             => (pc = "returned" /\ exc = "none"))
    /\ [][(now' # now /\ now' # << >>) =>
             (pc = "except" /\ last.raised \in CaughtExceptions)]_vars
    /\ [](timed_out => now # << >>)

\* An event of two jobs, older than timeout seconds when the probe
\* started, reported ready by the first pass.
C22_Witness ==
    /\ pc = "returned"
    /\ passes = 1
    /\ event.created_on = 0 - (timeout + 1)
    /\ Len(FailedJobs) = 2
    /\ passed = AllChecks
    /\ now = << >>

\* The probe ended by ResultTimedOut in the step being taken.
TimesOut == pc' = "raised" /\ exc' = "ResultTimedOut" /\ timed_out'

\* C23: after a failed pass the probe reads the clock and times out if and
\* only if the time read is strictly greater than created_on + 1200;
\* otherwise it sleeps 40 seconds and runs another pass.  A probe that
\* starts no earlier than created_on therefore runs at most 32 passes and
\* sleeps at most 31 times before it returns or raises.
C23_TimeoutStrictAndPassesBounded ==
    /\ [][(pc = "except" /\ pc' # pc) =>
             /\ now' = << clock' >>
             /\ clock' >= clock
             /\ TimesOut <=> (clock' > event.created_on + 1200)
             /\ (pc' = "sleep") <=> (clock' <= event.created_on + 1200)]_vars
    /\ [][(pc = "sleep" /\ pc' # pc) =>
             /\ clock' = clock + 40
             /\ pc' = "console"
             /\ passes' = passes + 1]_vars
    /\ []((InProbe /\ event.created_on <= 0) =>
             (passes <= 32 /\ sleeps <= 31 /\ passes = sleeps + 1))

\* The probe of a new event slept at exactly created_on + 1200 and timed
\* out after its 32nd pass.
C23_Witness ==
    /\ pc = "raised"
    /\ exc = "ResultTimedOut"
    /\ event.created_on = 0
    /\ passes = 32
    /\ sleeps = 31
    /\ tmsg.elapsed = 1240

\* C24: whenever the probe raises ResultTimedOut, `now` was read and the
\* job of the message is a job of the event, the one whose check failed in
\* the pass that just ended; and a probe over an event without failed jobs
\* returns success at once, with no query made, no sleep and no timeout.
C24_TimeoutNamesFailedJob ==
    /\ [][TimesOut =>
             /\ pc = "except"
             /\ last.raised \in CaughtExceptions
             /\ now' # << >>
             /\ tmsg'.job \in DOMAIN FailedJobs
             /\ tmsg'.job = last.job
             /\ <<last.job, last.kind>> \notin passed]_vars
    /\ [](timed_out => (now # << >> /\ tmsg.job \in DOMAIN FailedJobs))
    /\ []((InProbe /\ FailedJobs = << >>) =>
             /\ pc = "returned"
             /\ ~timed_out
             /\ last = NoQuery
             /\ passed = {}
             /\ sleeps = 0
             /\ now = << >>)

\* A probe over an event without failed jobs, older than timeout seconds:
\* returned at once.
C24_Witness ==
    /\ pc = "returned"
    /\ FailedJobs = << >>
    /\ event.created_on = 0 - (timeout + 1)
    /\ last = NoQuery
    /\ ~timed_out

\* A timeout naming the second job of the event, whose check failed in a
\* second or later pass.
TimedOutOnSecondJob ==
    /\ RaisedTimedOut
    /\ tmsg.job = 2
    /\ passes >= 2
    /\ passed = Done(1)

---------------------------------------------------------------------------
\* One event at a time.

\* C25: the stream handles the feed events one at a time, in the order
\* getEvent delivers them: the event in hand is replaced only at getEvent,
\* when no probe is running; a probe starts only on the event just
\* fetched; get_failed_tempest returns the event whose probe just
\* succeeded, and after a return another getEvent comes before the next
\* probe, so no event is returned twice; and a returned event has at least
\* one failed job.
C25_OneEventAtATime ==
    /\ [][event' # event => (pc = "waiting" /\ passed = {})]_vars
    /\ [][(pc \notin ProbePcs /\ pc' \in ProbePcs) =>
             /\ pc = "waiting"
             /\ pc' = "console"
             /\ passes' = 1
             /\ Len(event'.failed_jobs) >= 1]_vars
    /\ [][(pc # "returned" /\ pc' = "returned") =>
             (pc = "files" /\ event' = event)]_vars
    /\ [][(pc \in {"returned", "raised"}) =>
             pc' \in {pc, "waiting"}]_vars
    /\ [](pc = "waiting" => (last = NoQuery /\ passed = {}))
    /\ [](pc = "returned" =>
             (Len(FailedJobs) >= 1 /\ event.included))

\* The stream is at getEvent again in a later call, the two-job event of
\* the call before still in hand.
C25_Witness ==
    /\ pc = "waiting"
    /\ event.included
    /\ Len(FailedJobs) = 2
    /\ passes = 0

---------------------------------------------------------------------------
\* The event get_failed_tempest returns.

\* C26: when get_failed_tempest returns a FailEvent, the probe of that
\* event has succeeded, every failed job having passed both checks in one
\* pass, and no job of the event has a bug yet.
C26_ReturnedEventReadyAndUnclassified ==
    [][(pc # "returned" /\ pc' = "returned") =>
          /\ passed' = AllChecks
          /\ event' = event
          /\ FailJob_bugs' = << >>]_vars

\* The part of C26 that is the stream's own doing: the returned event
\* passed a full pass, and the stream neither runs the classifier nor puts
\* a bug anywhere.
StreamReturnsReadyAndClassifiesNothing ==
    /\ [](pc = "returned" => passed = AllChecks)
    /\ [][UNCHANGED <<classVars, heapVars>>]_vars

---------------------------------------------------------------------------
\* Properties of Stream.leave_comment.

CalledLeaveComment == call.fn = "leave_comment"

\* Some job of the call has a bug; every job of the call has one.
SomeJobHasBug == \E j \in DOMAIN call.bugs : call.bugs[j] # << >>
EveryJobHasBug == \A j \in DOMAIN call.bugs : call.bugs[j] # << >>

\* C27: leave_comment writes the message from the bugs of the jobs: only
\* no_bugs_found when no failed job has a bug; otherwise found_bug, then
\* recheck_instructions when every failed job has a bug or unrecognized
\* when some job has none, then footer.  The message goes to the review
\* system exactly when debug is false.
C27_CommentFollowsBugs ==
    CalledLeaveComment =>
        /\ ~SomeJobHasBug => ret.parts = << "no_bugs_found" >>
        /\ (SomeJobHasBug /\ EveryJobHasBug) =>
              ret.parts = << "found_bug", "recheck_instructions", "footer" >>
        /\ (SomeJobHasBug /\ ~EveryJobHasBug) =>
              ret.parts = << "found_bug", "unrecognized", "footer" >>
        /\ ret.posted <=> ~call.debug

\* An event of two jobs, the first without a bug, the second with one, in
\* debug mode: the message says unrecognized and is not posted.
C27_Witness ==
    /\ CalledLeaveComment
    /\ call.debug
    /\ Len(call.bugs) = 2
    /\ call.bugs[1] = << >>
    /\ call.bugs[2] # << >>
    /\ ret.parts = << "found_bug", "unrecognized", "footer" >>
    /\ ~ret.posted

---------------------------------------------------------------------------
\* Properties of the cleanup command.

CalledCleanup == call.fn = "cleanup"

\* The item reads "(<project> - <status>)" with one of the three fixed
\* statuses.
FixedItem(item) ==
    /\ Len(item) = 2
    /\ item[1][1] = "("
    /\ \E st \in {"Invalid", "Fix Committed", "Fix Released"} :
          item[2] = << st, ")" >>

\* The query may go: not kept for the graphs, the bug asked for if one was
\* asked for, and affects data in which every project is fixed.
MayRemove(q) ==
    /\ ~q.suppress_graph
    /\ call.args.bug = "" \/ q.bug = call.args.bug
    /\ q.affects # << >>
    /\ \A k \in DOMAIN q.affects : FixedItem(q.affects[k])

\* C28: cleanup removes the file of a query only if the query is not
\* marked suppress-graph, is the --bug asked for when one is given, and
\* every project its bug affects reads "(<project> - <status>)" with status
\* Invalid, Fix Committed or Fix Released; an item that does not parse, a
\* status that is not fixed, or no affects data keeps the file; with
\* --dry-run no file is removed.  Without --dry-run every such query is
\* removed, once.
C28_RemovesOnlyFixedQueries ==
    CalledCleanup =>
        /\ call.args.dry_run => ret.removed = << >>
        /\ \A i \in DOMAIN ret.removed :
              \E n \in DOMAIN call.queries :
                 /\ call.queries[n].bug = ret.removed[i]
                 /\ MayRemove(call.queries[n])
        /\ ~call.args.dry_run =>
              \A n \in DOMAIN call.queries :
                 MayRemove(call.queries[n]) =>
                    Cardinality({i \in DOMAIN ret.removed :
                        ret.removed[i] = call.queries[n].bug}) = 1

\* Two queries without --dry-run: the first bug is fixed in one project
\* and open in another and stays, the second is fixed everywhere and goes.
C28_Witness ==
    /\ CalledCleanup
    /\ ~call.args.dry_run
    /\ call.args.bug = ""
    /\ Len(call.queries) = 2
    /\ Len(call.queries[1].affects) = 2
    /\ FixedItem(call.queries[1].affects[1])
    /\ ~FixedItem(call.queries[1].affects[2])
    /\ ~call.queries[1].suppress_graph
    /\ ret.removed = << call.queries[2].bug >>

=============================================================================
